---- MODULE Spec2Model ----
(***************************************************************************)
(* Gesture Decision Engine (gestureDecisionEngine.js): thumb dominance     *)
(* gate, stability voting buffer and intent lock (cooldown), modelled as   *)
(* a state machine driven by processFrame / reset / onHandLost /           *)
(* getEngineState calls and by the wall clock read through Date.now()      *)
(* (Spec), and its pure methods called directly on bounded inputs          *)
(* (PureSpec).                                                             *)
(***************************************************************************)
EXTENDS Integers, Sequences, FiniteSets, TLC

\* ---------------------------------------------------------------------------
\* Program constants
\* ---------------------------------------------------------------------------
STABILITY_FRAMES == 8

GESTURE_COOLDOWN_MS == 2500

\* THUMB_DOMINANCE_THRESHOLD = 1.3, kept exact as the fraction 13 / 10
THUMB_DOMINANCE_NUM == 13

THUMB_DOMINANCE_DEN == 10

\* CONFIDENCE_TIE_BREAK_THRESHOLD = 0.1, in hundredths (confidences are percentages)
CONFIDENCE_TIE_BREAK_THRESHOLD == 10

\* ---------------------------------------------------------------------------
\* Bounds of the model (environment, not program)
\* ---------------------------------------------------------------------------
\* the clock stops advancing at this time: one whole cooldown, to its last
\* millisecond and past it, after an acceptance in the first milliseconds
MaxTime == 2502

\* how many calls of processFrame may see the clock advance while they run
MaxDrifts == 1

\* how many label changes the samples held in the buffer may show
MaxSwitches == 1

\* NONE / absent-label frames counted per stabilisation cycle (saturating)
MaxNones == 1

\* ---------------------------------------------------------------------------
\* Values
\* ---------------------------------------------------------------------------
\* JavaScript null (acceptedGesture, return value of processFrame)
Null == "null"

\* a TypeError escaping from processFrame
TypeError == "TypeError"

\* MediaPipe landmark indices used by the engine
LANDMARKS ==
    [WRIST |-> 0, THUMB_TIP |-> 4, INDEX_TIP |-> 8,
     MIDDLE_TIP |-> 12, RING_TIP |-> 16, PINKY_TIP |-> 20]

TipIndices == {0, 4, 8, 12, 16, 20}

Pt(x, y, z) == [x |-> x, y |-> y, z |-> z]

\* A hand pose: the landmarks the engine reads (the other 15 are never read).
\* Thumb clearly dominant: thumb 20, others at most 10 (20 > 1.3 * 10).
PoseThumbOut ==
    [i \in TipIndices |->
        CASE i = 0  -> Pt(0, 0, 0)
          [] i = 4  -> Pt(0, 20, 0)
          [] i = 8  -> Pt(10, 0, 0)
          [] i = 12 -> Pt(6, 8, 0)
          [] i = 16 -> Pt(0, 0, 9)
          [] i = 20 -> Pt(3, 4, 0)]

\* Thumb exactly at the boundary: thumb 13, max other 10 (13 = 1.3 * 10).
PoseBoundary ==
    [i \in TipIndices |->
        CASE i = 0  -> Pt(1, 1, 1)
          [] i = 4  -> Pt(1, 14, 1)
          [] i = 8  -> Pt(11, 1, 1)
          [] i = 12 -> Pt(7, 9, 1)
          [] i = 16 -> Pt(1, 1, 8)
          [] i = 20 -> Pt(4, 5, 1)]

\* Open hand: every finger far from the wrist, thumb shorter than the others.
PoseOpen ==
    [i \in TipIndices |->
        CASE i = 0  -> Pt(0, 0, 0)
          [] i = 4  -> Pt(12, 5, 0)
          [] i = 8  -> Pt(0, 20, 0)
          [] i = 12 -> Pt(0, 21, 0)
          [] i = 16 -> Pt(0, 19, 0)
          [] i = 20 -> Pt(0, 15, 0)]

\* A truncated landmark array: only indices 0..4 exist, landmarks[8] is undefined
PoseMalformed ==
    [i \in {0, 4} |->
        CASE i = 0  -> Pt(0, 0, 0)
          [] i = 4  -> Pt(0, 20, 0)]

Poses == {PoseThumbOut, PoseBoundary, PoseOpen, PoseMalformed}

\* Raw labels a frame may carry: the two labels the gate tells apart, the NONE
\* sentinel, an absent label (null) and a label outside the vocabulary.
RawLabels == {"THUMBS_UP", "CLOSED_FIST", "NONE", Null, "WAVE"}

Confidences == {90}

\* mlPrediction objects handed to processFrame, with the landmarks of the frame.
\* Only a THUMBS_UP frame has its landmarks read, so it comes with every pose;
\* CLOSED_FIST comes with a well-formed and with a truncated pose.
Frame(l, c, p) == [label |-> l, confidence |-> c, landmarks |-> p]

Frames ==
    { Frame("THUMBS_UP", c, p) : c \in Confidences, p \in Poses }
    \cup { Frame("CLOSED_FIST", c, p) : c \in Confidences, p \in {PoseBoundary, PoseMalformed} }
    \cup { Frame(l, c, PoseOpen) : l \in RawLabels \ {"THUMBS_UP", "CLOSED_FIST"}, c \in Confidences }

\* !label : null, undefined and "" are falsy
Falsy(label) == label = Null


\* ---------------------------------------------------------------------------
\* Pure helpers of GestureDecisionEngine
\* ---------------------------------------------------------------------------
\* _computeDistance, squared: Math.sqrt is monotone on non-negative numbers, so
\* distances are compared through their squares (exact integer arithmetic)
computeDistanceSq(wrist, tip) ==
    LET dx == tip.x - wrist.x
        dy == tip.y - wrist.y
        dz == tip.z - wrist.z
    IN  dx * dx + dy * dy + dz * dz

MaxOf(S) == CHOOSE m \in S : \A n \in S : n <= m

\* reading .x of an undefined landmark throws
Readable(landmarks) == TipIndices \subseteq DOMAIN landmarks

\* validateThumbDominance with an inclusive boundary
validateThumbDominance_atLeast(landmarks) ==
    LET wrist == landmarks[LANDMARKS.WRIST]
        thumbSq == computeDistanceSq(wrist, landmarks[LANDMARKS.THUMB_TIP])
        indexSq == computeDistanceSq(wrist, landmarks[LANDMARKS.INDEX_TIP])
        middleSq == computeDistanceSq(wrist, landmarks[LANDMARKS.MIDDLE_TIP])
        ringSq == computeDistanceSq(wrist, landmarks[LANDMARKS.RING_TIP])
        pinkySq == computeDistanceSq(wrist, landmarks[LANDMARKS.PINKY_TIP])
        maxOtherSq == MaxOf({indexSq, middleSq, ringSq, pinkySq})
    IN  thumbSq * THUMB_DOMINANCE_DEN * THUMB_DOMINANCE_DEN
            >= THUMB_DOMINANCE_NUM * THUMB_DOMINANCE_NUM * maxOtherSq

\* _validateThumbDominance: thumbDist > 1.3 * maxOtherDist
validateThumbDominance(landmarks) ==
    LET wrist == landmarks[LANDMARKS.WRIST]
        thumbSq == computeDistanceSq(wrist, landmarks[LANDMARKS.THUMB_TIP])
        indexSq == computeDistanceSq(wrist, landmarks[LANDMARKS.INDEX_TIP])
        middleSq == computeDistanceSq(wrist, landmarks[LANDMARKS.MIDDLE_TIP])
        ringSq == computeDistanceSq(wrist, landmarks[LANDMARKS.RING_TIP])
        pinkySq == computeDistanceSq(wrist, landmarks[LANDMARKS.PINKY_TIP])
        maxOtherSq == MaxOf({indexSq, middleSq, ringSq, pinkySq})
    IN  thumbSq * THUMB_DOMINANCE_DEN * THUMB_DOMINANCE_DEN
            > THUMB_DOMINANCE_NUM * THUMB_DOMINANCE_NUM * maxOtherSq

\* _applyTieBreaking: a stub, returns the label it was given
applyTieBreaking(label, confidence, fullPredictionObject) == label

\* the label passed on without the thumb-dominance gate
applyDecisionGates_noGate(label, confidence, landmarks) ==
    IF label = "THUMBS_UP" /\ ~Readable(landmarks)
    THEN TypeError
    ELSE applyTieBreaking(label, confidence, Null)

\* _applyDecisionGates: the gated label, or TypeError when the gate throws
applyDecisionGates(label, confidence, landmarks) ==
    IF label = "THUMBS_UP"
    THEN IF ~Readable(landmarks)
         THEN TypeError
         ELSE IF ~validateThumbDominance(landmarks)
              THEN "CLOSED_FIST"
              ELSE applyTieBreaking(label, confidence, Null)
    ELSE applyTieBreaking(label, confidence, Null)

\* _labelToGestureType
labelToGestureType(label) ==
    CASE label = "OPEN_PALM"   -> "open-palm"
      [] label = "CLOSED_FIST" -> "fist"
      [] label = "THUMBS_UP"   -> "thumbs-up"
      [] label = "POINTING_UP" -> "pointing"
      [] label = "PEACE_SIGN"  -> "peace"
      [] OTHER                 -> Null

\* _labelToPhrase
labelToPhrase(label) ==
    CASE label = "OPEN_PALM"   -> "Let's put a pin in that for now."
      [] label = "CLOSED_FIST" -> "We need to circle back to the core deliverables."
      [] label = "THUMBS_UP"   -> "I am fully aligned with this initiative."
      [] label = "POINTING_UP" -> "Let's take this offline."
      [] label = "PEACE_SIGN"  -> "We have verified the cross-functional synergy."
      [] OTHER                 -> "Waiting for input"

\* updateStabilityBuffer with the window one frame short
updateStabilityBuffer_early(buf, label, confidence, t) ==
    LET pushed == Append(buf, [label |-> label, confidence |-> confidence,
                               timestamp |-> t])
        bounded == IF Len(pushed) > STABILITY_FRAMES THEN Tail(pushed) ELSE pushed
        allSame == \A i \in 1..Len(bounded) : bounded[i].label = bounded[1].label
    IN  [buffer |-> bounded,
         stable |-> IF Len(bounded) >= STABILITY_FRAMES - 1 /\ allSame
                    THEN bounded[1].label
                    ELSE Null]

\* updateStabilityBuffer comparing only the two newest samples
updateStabilityBuffer_lastTwo(buf, label, confidence, t) ==
    LET pushed == Append(buf, [label |-> label, confidence |-> confidence,
                               timestamp |-> t])
        bounded == IF Len(pushed) > STABILITY_FRAMES THEN Tail(pushed) ELSE pushed
        n == Len(bounded)
        allSame == n < 2 \/ bounded[n].label = bounded[n - 1].label
    IN  [buffer |-> bounded,
         stable |-> IF Len(bounded) = STABILITY_FRAMES /\ allSame
                    THEN bounded[n].label
                    ELSE Null]

\* updateStabilityBuffer dropping the newest sample of a full buffer (pop for shift)
updateStabilityBuffer_dropNewest(buf, label, confidence, t) ==
    LET pushed == Append(buf, [label |-> label, confidence |-> confidence,
                               timestamp |-> t])
        bounded == IF Len(pushed) > STABILITY_FRAMES
                   THEN SubSeq(pushed, 1, STABILITY_FRAMES) ELSE pushed
        allSame == \A i \in 1..Len(bounded) : bounded[i].label = bounded[1].label
    IN  [buffer |-> bounded,
         stable |-> IF Len(bounded) = STABILITY_FRAMES /\ allSame
                    THEN bounded[1].label
                    ELSE Null]

\* _updateStabilityBuffer(label, confidence) with Date.now() = t:
\* the buffer after the call and the value returned
updateStabilityBuffer(buf, label, confidence, t) ==
    LET pushed == Append(buf, [label |-> label, confidence |-> confidence,
                               timestamp |-> t])
        bounded == IF Len(pushed) > STABILITY_FRAMES THEN Tail(pushed) ELSE pushed
        allSame == \A i \in 1..Len(bounded) : bounded[i].label = bounded[1].label
    IN  [buffer |-> bounded,
         stable |-> IF Len(bounded) = STABILITY_FRAMES /\ allSame
                    THEN bounded[1].label
                    ELSE Null]

\* isInCooldown ending the cooldown one millisecond early
isInCooldown_short(flag, acceptedTs, t) ==
    IF ~flag \/ acceptedTs = 0
    THEN [result |-> FALSE, inCooldown |-> flag]
    ELSE LET elapsedMs == t - acceptedTs
             stillInCooldown == elapsedMs < GESTURE_COOLDOWN_MS - 1
             flagAfter == IF ~stillInCooldown THEN FALSE ELSE flag
         IN  [result |-> flagAfter, inCooldown |-> flagAfter]

\* isInCooldown still locking at exactly GESTURE_COOLDOWN_MS
isInCooldown_inclusive(flag, acceptedTs, t) ==
    IF ~flag \/ acceptedTs = 0
    THEN [result |-> FALSE, inCooldown |-> flag]
    ELSE LET elapsedMs == t - acceptedTs
             stillInCooldown == elapsedMs <= GESTURE_COOLDOWN_MS
             flagAfter == IF ~stillInCooldown THEN FALSE ELSE flag
         IN  [result |-> flagAfter, inCooldown |-> flagAfter]

\* isInCooldown leaving the flag set when the cooldown has run out
isInCooldown_staleFlag(flag, acceptedTs, t) ==
    IF ~flag \/ acceptedTs = 0
    THEN [result |-> FALSE, inCooldown |-> flag]
    ELSE LET elapsedMs == t - acceptedTs
             stillInCooldown == elapsedMs < GESTURE_COOLDOWN_MS
         IN  [result |-> stillInCooldown, inCooldown |-> flag]

\* isInCooldown with a lock that time does not end
isInCooldown_noExpiry(flag, acceptedTs, t) ==
    IF ~flag \/ acceptedTs = 0
    THEN [result |-> FALSE, inCooldown |-> flag]
    ELSE [result |-> TRUE, inCooldown |-> flag]

\* isInCooldown never reporting a cooldown
isInCooldown_off(flag, acceptedTs, t) == [result |-> FALSE, inCooldown |-> flag]

\* _isInCooldown() with Date.now() = t: the value returned and the flag it leaves
isInCooldown(flag, acceptedTs, t) ==
    IF ~flag \/ acceptedTs = 0
    THEN [result |-> FALSE, inCooldown |-> flag]
    ELSE LET elapsedMs == t - acceptedTs
             stillInCooldown == elapsedMs < GESTURE_COOLDOWN_MS
             flagAfter == IF ~stillInCooldown THEN FALSE ELSE flag
         IN  [result |-> flagAfter, inCooldown |-> flagAfter]

\* number of places where two neighbouring samples carry different labels
Switches(buf) ==
    Cardinality({i \in 1..(Len(buf) - 1) : buf[i].label # buf[i + 1].label})

\* ---------------------------------------------------------------------------
\* State
\* ---------------------------------------------------------------------------
VARIABLES
    stabilityBuffer,    \* this.stabilityBuffer: sequence of {label, confidence, timestamp}
    acceptedGesture,    \* this.acceptedGesture: a label or null
    acceptedTimestamp,  \* this.acceptedTimestamp
    inCooldown,         \* this.inCooldown
    now,                \* the value Date.now() returns
    ret,                \* what the last call returned (or threw)
    obs,                \* history: the last operation, as its caller observed it
    cyc,                \* history: counters of the current stabilisation cycle
    run,                \* history: the run of equal labels that ends the appended samples
    env,                \* history: what the environment has used of its bounds
    probe,              \* a direct call of one of the engine's pure methods: arguments and result
    pinchRefs,          \* usePinchDetector: holdStartTimeRef, lastPinchTimeRef, isPinchingRef
    pinchObs,           \* history: the last detectPinch call and the hold it belongs to
    loader,             \* gestureModel.js: cachedModel, isLoading, loadPromise, isUserModel
                        \*   and the loads (async bodies) started so far
    loaderObs,          \* history: the last loadGestureModel call
    feed                \* the gesture the user holds in front of the camera, if any

vars == <<stabilityBuffer, acceptedGesture, acceptedTimestamp, inCooldown,
          now, ret, obs, cyc, run, env, probe, pinchRefs, pinchObs, loader, loaderObs,
          feed>>

\* the state of the decision engine and its history, the clock left out
engineVars == <<stabilityBuffer, acceptedGesture, acceptedTimestamp, inCooldown,
                ret, obs, cyc, run, env>>

\* the state of the hooks and modules beside the decision engine
hooks == <<pinchRefs, pinchObs, loader, loaderObs, feed>>

\* the fields of the engine, as one record
Engine(buffer, gesture, timestamp, flag) ==
    [stabilityBuffer |-> buffer, acceptedGesture |-> gesture,
     acceptedTimestamp |-> timestamp, inCooldown |-> flag]

EngineNow == Engine(stabilityBuffer, acceptedGesture, acceptedTimestamp, inCooldown)

Fields == {"stabilityBuffer", "acceptedGesture", "acceptedTimestamp", "inCooldown"}

\* the fields a call left as they were
Kept(after) == {f \in Fields : after[f] = EngineNow[f]}

\* reset() leaving the cooldown in place
ResetState_keepLock == Engine(<< >>, Null, acceptedTimestamp, inCooldown)

\* reset() leaving the buffer in place
ResetState_keepBuffer == Engine(stabilityBuffer, Null, 0, FALSE)

\* reset() leaving the accepted gesture in place
ResetState_keepGesture == Engine(<< >>, acceptedGesture, 0, FALSE)

\* reset(): the value every field is given
ResetState == Engine(<< >>, Null, 0, FALSE)

\* constructor(): the value every field starts with
ConstructorState == Engine(<< >>, Null, 0, FALSE)

\* return values of processFrame
NoEvent == [kind |-> "null", label |-> Null, gestureType |-> Null,
            phrase |-> Null, reason |-> Null]

Thrown == [kind |-> TypeError, label |-> Null, gestureType |-> Null,
           phrase |-> Null, reason |-> Null]

Accepted(label, gestureType, phrase) ==
    [kind |-> "event", label |-> label, gestureType |-> gestureType,
     phrase |-> phrase, reason |-> "stable (8 frames)"]

IsEvent(r) == r.kind = "event"

\* ---------------------------------------------------------------------------
\* processFrame
\* ---------------------------------------------------------------------------
\* the early return testing the sentinel only
IgnoredLabel_onlyNone(label) == label = "NONE"

\* if (!label || label === 'NONE') return null;
IgnoredLabel(label) == Falsy(label) \/ label = "NONE"

\* the acceptance without the comparison with acceptedGesture
IsNewGesture_any(stableLabel, accepted) == stableLabel # Null

\* if (stableLabel) { if (stableLabel !== this.acceptedGesture) { ...accept... } }
IsNewGesture(stableLabel, accepted) == stableLabel # Null /\ stableLabel # accepted

\* an ignored frame clearing the buffer
IgnoredOutcome_reset == [EngineNow EXCEPT !.stabilityBuffer = << >>]

\* the engine after a frame with no label: nothing is touched ("Don't reset buffer yet")
IgnoredOutcome == EngineNow

\* the acceptance leaving acceptedTimestamp as it was
AcceptState_noTimestamp(stableLabel, t) == Engine(<< >>, stableLabel, acceptedTimestamp, TRUE)

\* the acceptance without the lock
AcceptState_noLock(stableLabel, t) == Engine(<< >>, stableLabel, t, FALSE)

\* the acceptance leaving the samples in the buffer
AcceptState_keepBuffer(stableLabel, t) == Engine(stabilityBuffer, stableLabel, t, TRUE)

\* the engine after an acceptance at Date.now() = t:
\* acceptedGesture, acceptedTimestamp, inCooldown = true, stabilityBuffer = []
AcceptState(stableLabel, t) == Engine(<< >>, stableLabel, t, TRUE)

\* what one call of processFrame does: the engine it leaves, the value it
\* returns, the clock when it returns, and for the history the gated label,
\* whether the lock ignored the call, what the vote looked at, the clock
\* values read by _isInCooldown and by _updateStabilityBuffer (0: no read) and
\* whether the push found the buffer full
Outcome(state, r, t, gated, locked, window, read, stamp, evicted) ==
    [state |-> state, ret |-> r, now |-> t, gated |-> gated, locked |-> locked,
     window |-> window, read |-> read, stamp |-> stamp, evicted |-> evicted]

\* what the vote looked at: how many samples, and whether their labels agree
NoVote == [len |-> 0, same |-> TRUE]

VoteOn(buf) ==
    [len |-> Len(buf), same |-> \A i \in 1..Len(buf) : buf[i].label = buf[1].label]

\* processFrame taking gestureType and phrase from the raw label
processFrame_rawMapping(mlPrediction, landmarks, d1, d2) ==
    LET label == mlPrediction.label
        confidence == mlPrediction.confidence
        cd == isInCooldown(inCooldown, acceptedTimestamp, now)
        read == IF inCooldown /\ acceptedTimestamp # 0 THEN now ELSE 0
        gatedLabel == applyDecisionGates(label, confidence, landmarks)
        finalGestureType == labelToGestureType(label)
        finalPhrase == labelToPhrase(label)
        upd == updateStabilityBuffer(stabilityBuffer, gatedLabel, confidence, now + d1)
        stableLabel == upd.stable
        full == Len(stabilityBuffer) = STABILITY_FRAMES
    IN  IF IgnoredLabel(label)
        THEN Outcome(IgnoredOutcome, NoEvent, now, Null, FALSE, NoVote, 0, 0, FALSE)
        ELSE IF cd.result
        THEN Outcome([EngineNow EXCEPT !.inCooldown = cd.inCooldown],
                     NoEvent, now, gatedLabel, TRUE, NoVote, read, 0, FALSE)
        ELSE IF gatedLabel = TypeError
        THEN Outcome([EngineNow EXCEPT !.inCooldown = cd.inCooldown],
                     Thrown, now, gatedLabel, FALSE, NoVote, read, 0, FALSE)
        ELSE IF IsNewGesture(stableLabel, acceptedGesture)
        THEN Outcome(AcceptState(stableLabel, now + d1 + d2),
                     Accepted(stableLabel, finalGestureType, finalPhrase),
                     now + d1 + d2, gatedLabel, FALSE, VoteOn(upd.buffer),
                     read, now + d1, full)
        ELSE Outcome(Engine(upd.buffer, acceptedGesture, acceptedTimestamp, cd.inCooldown),
                     NoEvent, now + d1, gatedLabel, FALSE, VoteOn(upd.buffer),
                     read, now + d1, full)

\* processFrame(mlPrediction, landmarks); the clock advances by d1 between the
\* read in _isInCooldown and the one in _updateStabilityBuffer, and by d2
\* between that one and the read at the acceptance
processFrame(mlPrediction, landmarks, d1, d2) ==
    LET label == mlPrediction.label
        confidence == mlPrediction.confidence
        cd == isInCooldown(inCooldown, acceptedTimestamp, now)
        read == IF inCooldown /\ acceptedTimestamp # 0 THEN now ELSE 0
        gatedLabel == applyDecisionGates(label, confidence, landmarks)
        finalGestureType == labelToGestureType(gatedLabel)
        finalPhrase == labelToPhrase(gatedLabel)
        upd == updateStabilityBuffer(stabilityBuffer, gatedLabel, confidence, now + d1)
        stableLabel == upd.stable
        full == Len(stabilityBuffer) = STABILITY_FRAMES
    IN  IF IgnoredLabel(label)
        THEN Outcome(IgnoredOutcome, NoEvent, now, Null, FALSE, NoVote, 0, 0, FALSE)
        ELSE IF cd.result
        THEN Outcome([EngineNow EXCEPT !.inCooldown = cd.inCooldown],
                     NoEvent, now, gatedLabel, TRUE, NoVote, read, 0, FALSE)
        ELSE IF gatedLabel = TypeError
        THEN Outcome([EngineNow EXCEPT !.inCooldown = cd.inCooldown],
                     Thrown, now, gatedLabel, FALSE, NoVote, read, 0, FALSE)
        ELSE IF IsNewGesture(stableLabel, acceptedGesture)
        THEN Outcome(AcceptState(stableLabel, now + d1 + d2),
                     Accepted(stableLabel, finalGestureType, finalPhrase),
                     now + d1 + d2, gatedLabel, FALSE, VoteOn(upd.buffer),
                     read, now + d1, full)
        ELSE Outcome(Engine(upd.buffer, acceptedGesture, acceptedTimestamp, cd.inCooldown),
                     NoEvent, now + d1, gatedLabel, FALSE, VoteOn(upd.buffer),
                     read, now + d1, full)

\* ---------------------------------------------------------------------------
\* History
\* ---------------------------------------------------------------------------
Cap == STABILITY_FRAMES + 1

Sat(n, cap) == IF n < cap THEN n + 1 ELSE cap

NoLost == [label |-> Null, until |-> 0, by |-> Null]

\* A cycle starts when the buffer is cleared: construction, reset, onHandLost
\* or an acceptance.  `lost` remembers the lock that a reset cut short, for as
\* long as the calls that follow are made within it and carry its label.
NewCycle(fresh, since, last, lost) ==
    [fresh |-> fresh,       \* started by construction / reset, not by an acceptance
     since |-> since,       \* the time of the acceptance that started it (0 if fresh)
     last |-> last,         \* the label of that acceptance (null if fresh)
     calls |-> 0,           \* processFrame calls with a label other than NONE / absent
     lead |-> 0,            \* how many of them, from the first, had one same gated label
     leadLabel |-> Null,    \* that label
     fed |-> 0,             \* how many of them appended a sample
     nones |-> 0,           \* NONE / absent frames after the first of these calls
     ignored |-> FALSE,     \* calls with a label were made within the cooldown of `since`
     lost |-> lost]

\* the counters are followed for the first STABILITY_FRAMES calls of a cycle
Over(c) ==
    [c EXCEPT !.calls = Cap, !.lead = 0, !.leadLabel = Null, !.fed = 0,
              !.nones = 0, !.ignored = FALSE, !.lost = NoLost]

\* The counters after a call with a label other than NONE that reached `gated`
\* (TypeError when the gate threw).  A cycle is followed while its calls carry
\* one same gated label, and through the call that first departs from it when
\* that is call number STABILITY_FRAMES; after that its counters are Over.
Counted(c, gated, appended) ==
    LET uniform == c.lead = c.calls /\ gated # TypeError
                      /\ (c.calls = 0 \/ gated = c.leadLabel)
        fed == IF appended THEN c.fed + 1 ELSE c.fed
    IN  IF c.calls >= STABILITY_FRAMES \/ c.lead < c.calls
        THEN Over(c)
        ELSE IF uniform
        THEN [c EXCEPT !.calls = c.calls + 1,
                       !.lead = c.lead + 1,
                       !.leadLabel = gated,
                       !.fed = fed,
                       !.lost = IF gated = c.lost.label /\ now < c.lost.until
                                THEN c.lost ELSE NoLost]
        ELSE IF c.calls = STABILITY_FRAMES - 1 /\ gated # TypeError
        THEN [c EXCEPT !.calls = c.calls + 1, !.fed = fed, !.lost = NoLost]
        ELSE Over(c)

CountedNone(c) ==
    IF c.calls = 0 \/ c.calls >= Cap THEN c ELSE [c EXCEPT !.nones = Sat(c.nones, MaxNones)]

\* a call with a label made less than GESTURE_COOLDOWN_MS after the acceptance
\* that started the cycle: it is not one of the calls the cycle counts
CountedInCooldown(c) == [c EXCEPT !.ignored = TRUE]

\* the cycle a processFrame call belongs to, the call counted
CycleOf(out) ==
    IF out.gated = Null THEN CountedNone(cyc)
    ELSE IF ~cyc.fresh /\ now < cyc.since + GESTURE_COOLDOWN_MS THEN CountedInCooldown(cyc)
    ELSE Counted(cyc, out.gated, out.window # NoVote)

NoRun == [label |-> Null, len |-> 0, up |-> 0, fist |-> 0, kinds |-> {}, appended |-> 0]

\* what a frame is before any gate: a raw THUMBS_UP whose pose has the thumb
\* out ("up") or not ("weakUp"), a raw CLOSED_FIST ("fist"), or something else
FrameKind(f) ==
    CASE f.label = "THUMBS_UP" /\ f.landmarks = PoseThumbOut -> "up"
      [] f.label = "THUMBS_UP" /\ f.landmarks \in {PoseBoundary, PoseOpen} -> "weakUp"
      [] f.label = "CLOSED_FIST" -> "fist"
      [] OTHER -> "other"

\* The run of equal labels at the end of the samples appended since the buffer
\* was last cleared, the sample of this call included; and, told by the kind
\* of the frames alone, how many "up" frames and how many "fist" or "weakUp"
\* frames in a row were appended last, and which kinds the latter were; and
\* how many samples were appended since the buffer was last cleared.
RunOf(out, f) ==
    LET kind == FrameKind(f)
        fistLike == kind \in {"fist", "weakUp"}
        r == IF out.gated = run.label
             THEN [run EXCEPT !.len = Sat(run.len, STABILITY_FRAMES)]
             ELSE [run EXCEPT !.label = out.gated, !.len = 1]
    IN  IF out.window = NoVote THEN run
        ELSE [r EXCEPT !.up = IF kind = "up" THEN Sat(run.up, STABILITY_FRAMES) ELSE 0,
                       !.fist = IF fistLike THEN Sat(run.fist, STABILITY_FRAMES) ELSE 0,
                       !.kinds = IF fistLike THEN run.kinds \cup {kind} ELSE {},
                       !.appended = Sat(run.appended, STABILITY_FRAMES)]

\* the object getEngineState() returns
EngineState(gesture, flag, size, remaining) ==
    [acceptedGesture |-> gesture, inCooldown |-> flag,
     stabilityBufferSize |-> size, cooldownTimeRemaining |-> remaining]

NoReport == EngineState(Null, FALSE, 0, 0)

NoObs(name) ==
    [op |-> name,           \* the operation
     at |-> 0,              \* the time at which it was called
     label |-> Null,        \* processFrame: mlPrediction.label
     wellFormed |-> TRUE,   \* processFrame: the landmarks hold every index the engine reads
     gated |-> Null,        \* processFrame: the label after the gates
     locked |-> FALSE,      \* processFrame: the call was ignored by the lock
     before |-> Null,       \* acceptedGesture before the call
     kept |-> Fields,       \* the engine fields the call left unchanged
     window |-> NoVote,     \* processFrame: the samples the vote looked at
     read |-> 0,            \* processFrame: the clock as _isInCooldown read it (0: not read)
     stamp |-> 0,           \* processFrame: the timestamp of the sample pushed (0: none)
     evicted |-> FALSE,     \* processFrame: the push found the buffer full
     report |-> NoReport,   \* getEngineState: the object returned
     run |-> NoRun,         \* processFrame: the run of equal labels, this call included
     cyc |-> NewCycle(TRUE, 0, Null, NoLost)]   \* and its cycle, this call counted

\* no pure method is being called directly
NoProbe == [fn |-> "none"]

\* nobody holds a gesture in front of the camera
NoFeed == [on |-> FALSE, done |-> FALSE, label |-> Null, raw |-> Null,
           locked |-> FALSE]

\* ---------------------------------------------------------------------------
\* The model cache of src/ml/gestureModel.js
\* ---------------------------------------------------------------------------
\* the module-scoped variables and the promises created by loadGestureModel:
\* loads[i] is the state of the async body behind promise i, and a
\* loadPromise of 0 is null
Module(cached, loading, promise, user, bodies) ==
    [cachedModel |-> cached, isLoading |-> loading, loadPromise |-> promise,
     isUserModel |-> user, loads |-> bodies]

\* let cachedModel = null; let isLoading = false; let loadPromise = null;
\* let isUserModel = false
ModuleState == Module(Null, FALSE, 0, FALSE, << >>)

\* an async body suspended at an await, or settled
Body(pc, value) == [pc |-> pc, value |-> value]

InFlight(l) == {i \in DOMAIN l.loads : l.loads[i].pc \in {"loadUserModel", "loadLayersModel"}}

\* the body ends and its finally clause is skipped
Settle_noFinally(l, i, model, user, ok) ==
    Module(IF ok THEN model ELSE Null, l.isLoading, l.loadPromise,
           IF model = Null THEN l.isUserModel ELSE user,
           [l.loads EXCEPT ![i] = IF ok THEN Body("resolved", model)
                                  ELSE Body("rejected", Null)])

\* The rest of the async body once a model (or an error, model = Null) has
\* arrived: cachedModel and isUserModel are assigned, the warm-up prediction
\* runs (ok: it does not throw), the body returns cachedModel or the catch
\* clause clears cachedModel and rethrows, and finally isLoading = false.
Settle(l, i, model, user, ok) ==
    Module(IF ok THEN model ELSE Null, FALSE, l.loadPromise,
           IF model = Null THEN l.isUserModel ELSE user,
           [l.loads EXCEPT ![i] = IF ok THEN Body("resolved", model)
                                  ELSE Body("rejected", Null)])

\* history of the loader
NoLoaderObs ==
    [op |-> "none",
     cachedBefore |-> Null,  \* cachedModel when loadGestureModel was called
     inFlightBefore |-> {},  \* the loads in progress at that moment
     failedBefore |-> FALSE, \* the load started last had failed by then
     started |-> FALSE,      \* the call started a load
     returned |-> Null,      \* the model returned,
     promise |-> 0,          \*   or the promise returned (0: none)
     calls |-> 0]            \* loadGestureModel calls made

\* ---------------------------------------------------------------------------
\* usePinchDetector (src/hooks/usePinchDetector.js)
\* ---------------------------------------------------------------------------
PINCH_DISTANCE_THRESHOLD == 40

PINCH_HOLD_DURATION == 800

PINCH_COOLDOWN == 2000

CONFLICTING_GESTURES == {"peace", "pointing", "open-palm"}

\* holdStartTimeRef.current = null
NoTime == -1

PinchRefs(holdStart, lastPinch, isPinching) ==
    [holdStartTimeRef |-> holdStart, lastPinchTimeRef |-> lastPinch,
     isPinchingRef |-> isPinching]

Pt2(x, y) == [x |-> x, y |-> y]

\* the landmark indices detectPinch reads
PinchIndices == {0, 4, 5, 6, 8, 10, 11, 12, 14, 15, 16, 18, 19, 20}

\* A hand in pixel coordinates (y grows downwards), wrist at (100, 300) and
\* thumb tip at (100, 100): the index tip is d = 5k away from the thumb tip,
\* the index PIP joint is at height pipY, and the tips of the middle, ring and
\* pinky fingers are at heights m, r and p above their PIP joints at y = 200
\* (wrist distance of the joint: 100).
HandOf(k, pipY, m, r, p) ==
    [length |-> 21,
     pts |-> [i \in PinchIndices |->
        CASE i = 0  -> Pt2(100, 300)
          [] i = 4  -> Pt2(100, 100)
          [] i = 8  -> Pt2(100 + 3 * k, 100 + 4 * k)
          [] i = 6  -> Pt2(110, pipY)
          [] i = 5  -> Pt2(110, 220)
          [] i = 12 -> Pt2(100, m)
          [] i = 16 -> Pt2(100, r)
          [] i = 20 -> Pt2(100, p)
          [] i \in {11, 15, 19} -> Pt2(100, 200)
          [] OTHER -> Pt2(100, 240)]]

\* thumb and index 30 px apart, the three other fingers curled, index not raised
HandPinch == HandOf(6, 140, 210, 210, 210)

\* the same with thumb and index exactly 40 px apart
HandApart == HandOf(8, 140, 210, 210, 210)

\* the same as HandPinch with the middle finger extended (120 > 1.15 * 100)
HandMiddleOut == HandOf(6, 140, 180, 210, 210)

\* the same with the pinky tip exactly 1.15 times as far as its joint: curled
HandPinkyEdge == HandOf(6, 140, 210, 210, 185)

\* the same as HandPinch with the index raised: tip 36 px above its PIP joint
HandIndexUp == HandOf(6, 160, 210, 210, 210)

\* an array of 20 landmarks
HandShort == [length |-> 20, pts |-> HandPinch.pts]

\* 21 entries, the one of the thumb tip missing
HandNoThumb == [length |-> 21, pts |-> [i \in PinchIndices \ {4} |-> HandPinch.pts[i]]]

\* landmarks = null
NoHand == [length |-> 0, pts |-> [i \in {} |-> Pt2(0, 0)]]

DistSq2(a, b) == (a.x - b.x) * (a.x - b.x) + (a.y - b.y) * (a.y - b.y)

Has(landmarks, i) == i \in DOMAIN landmarks.pts

\* isFingerExtended: tipDist > pipDist * 1.15  (1.15^2 = 529 / 400)
isFingerExtended(landmarks, tipIndex, pipIndex, mcpIndex) ==
    IF ~Has(landmarks, tipIndex) \/ ~Has(landmarks, pipIndex) \/ ~Has(landmarks, mcpIndex)
    THEN FALSE
    ELSE LET wrist == landmarks.pts[0]
             tipSq == DistSq2(landmarks.pts[tipIndex], wrist)
             pipSq == DistSq2(landmarks.pts[pipIndex], wrist)
         IN  400 * tipSq > 529 * pipSq

\* isIndexFullyExtended: tip more than 150 px from the wrist and more than
\* 30 px above the PIP joint
isIndexFullyExtended(landmarks) ==
    IF ~Has(landmarks, 8) \/ ~Has(landmarks, 6) \/ ~Has(landmarks, 5)
    THEN FALSE
    ELSE LET indexTip == landmarks.pts[8]
             indexPip == landmarks.pts[6]
             wrist == landmarks.pts[0]
             isDistant == DistSq2(indexTip, wrist) > 150 * 150
             isUpward == indexTip.y < indexPip.y - 30
         IN  isDistant /\ isUpward

\* the conflicting gestures without the open palm
IsConflicting_noOpenPalm(currentGestureType) ==
    currentGestureType \in {"peace", "pointing"}

\* CONFLICTING_GESTURES.some(g => gestureTypeLower.includes(g)); the gesture
\* types handed in are the lower-case names of the UI, or null
IsConflicting(currentGestureType) ==
    currentGestureType \in CONFLICTING_GESTURES

\* the cooldown measured from the start of the hold
CooldownOver_fromHold(t, holdStart, lastPinch) == t - holdStart >= PINCH_COOLDOWN - PINCH_HOLD_DURATION

\* now - lastPinchTimeRef.current >= PINCH_COOLDOWN
CooldownOver(t, holdStart, lastPinch) == t - lastPinch >= PINCH_COOLDOWN

\* rules 1 to 4 of detectPinch: "" when all pass, else the rule that returned
PinchRule(landmarks, currentGestureType) ==
    IF landmarks.length < 21 THEN "landmarks"
    ELSE IF IsConflicting(currentGestureType) THEN "conflict"
    ELSE IF ~Has(landmarks, 4) \/ ~Has(landmarks, 8) THEN "tips"
    ELSE IF ~(DistSq2(landmarks.pts[4], landmarks.pts[8])
                < PINCH_DISTANCE_THRESHOLD * PINCH_DISTANCE_THRESHOLD) THEN "distance"
    ELSE IF \/ isFingerExtended(landmarks, 12, 11, 10)
            \/ isFingerExtended(landmarks, 16, 15, 14)
            \/ isFingerExtended(landmarks, 20, 19, 18) THEN "fingers"
    ELSE IF isIndexFullyExtended(landmarks) THEN "index"
    ELSE ""

\* detectPinch(landmarks) with Date.now() = t: the refs it leaves and whether
\* it invoked onPinch
detectPinch(refs, landmarks, currentGestureType, t) ==
    LET rule == PinchRule(landmarks, currentGestureType)
        holdDuration == t - refs.holdStartTimeRef
    IN  IF rule # ""
        THEN [refs |-> PinchRefs(NoTime, refs.lastPinchTimeRef, FALSE),
              onPinch |-> FALSE, rule |-> rule]
        ELSE IF ~refs.isPinchingRef
        THEN [refs |-> PinchRefs(t, refs.lastPinchTimeRef, TRUE),
              onPinch |-> FALSE, rule |-> rule]
        ELSE IF holdDuration >= PINCH_HOLD_DURATION
                /\ CooldownOver(t, refs.holdStartTimeRef, refs.lastPinchTimeRef)
        THEN [refs |-> PinchRefs(t, t, TRUE), onPinch |-> TRUE, rule |-> rule]
        ELSE [refs |-> refs, onPinch |-> FALSE, rule |-> rule]

\* history of the pinch detector
NoPinchObs ==
    [op |-> "none",
     at |-> 0,              \* the time of the last detectPinch call
     gestureType |-> Null,  \* its currentGestureType
     hand |-> "none",       \* its landmarks, by name
     onPinch |-> FALSE,     \* it invoked onPinch
     prevPinch |-> NoTime,  \* the time of the onPinch before this call (NoTime: none)
     held |-> FALSE,        \* isPinchingRef before this call
     okSince |-> NoTime,    \* since when every call has met all the conditions
     okFired |-> FALSE,     \* onPinch was invoked since okSince, before this call
     ranSince |-> NoTime,   \* this call ended a run of calls meeting all the
     ranUntil |-> NoTime,   \*   conditions: its first and last call and
     ranFired |-> FALSE,    \*   whether onPinch was invoked during it
     cleanSince |-> NoTime, \* since when no call had a conflicting gesture type
     shorts |-> 0]          \* short clock steps taken

\* constructor
Init ==
    /\ stabilityBuffer = ConstructorState.stabilityBuffer
    /\ acceptedGesture = ConstructorState.acceptedGesture
    /\ acceptedTimestamp = ConstructorState.acceptedTimestamp
    /\ inCooldown = ConstructorState.inCooldown
    /\ now = 1
    /\ ret = NoEvent
    /\ obs = NoObs("constructor")
    /\ cyc = NewCycle(TRUE, 0, Null, NoLost)
    /\ run = NoRun
    /\ env = [drifts |-> 0]
    /\ probe = NoProbe
    /\ pinchRefs = PinchRefs(NoTime, 0, FALSE)
    /\ pinchObs = NoPinchObs
    /\ loader = ModuleState
    /\ loaderObs = NoLoaderObs
    /\ feed = NoFeed

\* ---------------------------------------------------------------------------
\* Operations
\* ---------------------------------------------------------------------------
Install(state) ==
    /\ stabilityBuffer' = state.stabilityBuffer
    /\ acceptedGesture' = state.acceptedGesture
    /\ acceptedTimestamp' = state.acceptedTimestamp
    /\ inCooldown' = state.inCooldown

\* the lock that is cut short when the state is cleared at this moment
LostNow(name) ==
    IF ~cyc.fresh /\ now < cyc.since + GESTURE_COOLDOWN_MS
    THEN [label |-> cyc.last, until |-> cyc.since + GESTURE_COOLDOWN_MS, by |-> name]
    ELSE NoLost

\* reset()
reset(name) ==
    /\ Install(ResetState)
    /\ ret' = NoEvent
    /\ obs' = [NoObs(name) EXCEPT !.at = now, !.before = acceptedGesture,
                                  !.kept = Kept(ResetState)]
    /\ cyc' = NewCycle(TRUE, 0, Null, LostNow(name))
    /\ run' = NoRun
    /\ UNCHANGED <<now, env, probe, hooks>>

\* onHandDisappear() { this.reset(); }
onHandDisappear(name) == reset(name)

\* the exported reset of the engine's state
Reset == reset("reset")

\* onHandLost() { gestureDecisionEngine.onHandDisappear(); }
onHandLost == onHandDisappear("onHandLost")

\* The clock advancing while a call runs is followed where the values read are
\* used together: in the call that starts a buffer (lock check and stamp) and
\* in the call that accepts (lock check, stamp and acceptedTimestamp).
DriftAllowed(out, d1, d2) ==
    \/ d1 + d2 = 0
    \/ /\ env.drifts < MaxDrifts
       /\ now + d1 + d2 <= MaxTime
       /\ out.window # NoVote
       /\ d2 > 0 => IsEvent(out.ret)
       /\ stabilityBuffer = << >> \/ IsEvent(out.ret)

\* by how much the clock may advance between two reads of one call
Drifts == IF env.drifts < MaxDrifts /\ now < MaxTime THEN {0, 1} ELSE {0}

\* processGestureFrame(mlPrediction, landmarks)
processGestureFrame ==
    \E f \in Frames, d1 \in Drifts, d2 \in Drifts :
        \E out \in {processFrame([label |-> f.label, confidence |-> f.confidence],
                                 f.landmarks, d1, d2)} :
            /\ DriftAllowed(out, d1, d2)
            /\ Switches(out.state.stabilityBuffer) <= MaxSwitches
            /\ Install(out.state)
            /\ now' = out.now
            /\ ret' = out.ret
            /\ \E c \in {CycleOf(out)}, r \in {RunOf(out, f)} :
                /\ obs' = [op |-> "processFrame", at |-> now,
                           label |-> f.label, wellFormed |-> Readable(f.landmarks),
                           gated |-> out.gated, locked |-> out.locked,
                           before |-> acceptedGesture, kept |-> Kept(out.state),
                           window |-> out.window, read |-> out.read,
                           stamp |-> out.stamp, evicted |-> out.evicted,
                           report |-> NoReport,
                           run |-> r, cyc |-> c]
                /\ cyc' = IF IsEvent(out.ret)
                          THEN NewCycle(FALSE, out.now, out.ret.label, NoLost)
                          ELSE c
                /\ run' = IF IsEvent(out.ret) THEN NoRun ELSE r
            /\ env' = [env EXCEPT !.drifts = IF d1 + d2 > 0 THEN @ + 1 ELSE @]
            /\ UNCHANGED <<probe, hooks>>

\* cooldownTimeRemaining without Math.max(0, ...)
cooldownTimeRemaining_noClamp(flag, acceptedTs, t) ==
    IF flag THEN GESTURE_COOLDOWN_MS - (t - acceptedTs) ELSE 0

\* cooldownTimeRemaining: inCooldown ? Math.max(0, GESTURE_COOLDOWN_MS - (Date.now() - acceptedTimestamp)) : 0
cooldownTimeRemaining(flag, acceptedTs, t) ==
    LET remaining == GESTURE_COOLDOWN_MS - (t - acceptedTs)
    IN  IF flag THEN (IF remaining > 0 THEN remaining ELSE 0) ELSE 0

\* getEngineState(): reads the fields and the clock, changes nothing
getEngineState ==
    LET report == EngineState(acceptedGesture, inCooldown, Len(stabilityBuffer),
                              cooldownTimeRemaining(inCooldown, acceptedTimestamp, now))
    IN  /\ ret' = NoEvent
        /\ obs' = [NoObs("getEngineState") EXCEPT !.at = now, !.before = acceptedGesture,
                                                  !.report = report]
        /\ UNCHANGED <<stabilityBuffer, acceptedGesture, acceptedTimestamp,
                       inCooldown, now, cyc, run, env, probe, hooks>>

\* Time passes between two calls.  The engine reads the clock to decide
\* something only while inCooldown is set; the clock is advanced there, and
\* wherever the buffer is empty.
Deltas == {GESTURE_COOLDOWN_MS - 1, GESTURE_COOLDOWN_MS, GESTURE_COOLDOWN_MS + 1}

Tick ==
    \E d \in Deltas :
        /\ now + d <= MaxTime
        /\ inCooldown \/ stabilityBuffer = << >>
        /\ now' = now + d
        /\ ret' = NoEvent
        /\ obs' = [NoObs("tick") EXCEPT !.at = now, !.before = acceptedGesture]
        /\ UNCHANGED <<stabilityBuffer, acceptedGesture, acceptedTimestamp,
                       inCooldown, cyc, run, env, probe, hooks>>

Next ==
    \/ processGestureFrame
    \/ Reset
    \/ onHandLost
    \/ getEngineState
    \/ Tick

Spec == Init /\ [][Next]_vars

\* ---------------------------------------------------------------------------
\* The pure methods, called directly
\* ---------------------------------------------------------------------------
\* the five labels of the lookup tables
Vocabulary == {"OPEN_PALM", "POINTING_UP", "PEACE_SIGN", "CLOSED_FIST", "THUMBS_UP"}

\* labels handed to the gate: the vocabulary, the sentinel and an unknown label
GateLabels == Vocabulary \cup {"NONE", "WAVE"}

\* wrist-to-tip distances of the poses handed to the gate
ThumbReach == {12, 13, 14, 25, 26, 27}

IndexReach == {5, 10}

RingReach == {5, 10, 20}

\* A hand whose wrist is at (1, 1, 1), with the thumb tip th away along y, the
\* index tip ix away along x, the ring tip rg away along z, the middle tip 5
\* away (3, 4, 0) and the pinky tip 1 away.
PoseOf(th, ix, rg) ==
    [i \in TipIndices |->
        CASE i = 0  -> Pt(1, 1, 1)
          [] i = 4  -> Pt(1, 1 + th, 1)
          [] i = 8  -> Pt(1 + ix, 1, 1)
          [] i = 12 -> Pt(4, 5, 1)
          [] i = 16 -> Pt(1, 1, 1 + rg)
          [] i = 20 -> Pt(2, 1, 1)]

\* the arguments of a direct call of _applyDecisionGates: thumb and maxOther
\* are the distances the pose was built with (0 for the truncated array)
GateCallOf(label, landmarks, thumb, maxOther) ==
    [fn |-> "applyDecisionGates", label |-> label, confidence |-> 90,
     landmarks |-> landmarks, thumb |-> thumb, maxOther |-> maxOther,
     full |-> Null, done |-> FALSE, out |-> Null]

GateInputs ==
    { GateCallOf(l, PoseOf(th, ix, rg), th, MaxOf({ix, rg, 5, 1})) :
        l \in GateLabels, th \in ThumbReach, ix \in IndexReach, rg \in RingReach }
    \cup { GateCallOf(l, PoseMalformed, 0, 0) : l \in GateLabels }

\* (top confidence, second confidence) of a full prediction, in percent
TopTwo == {<<75, 68>>, <<75, 65>>, <<75, 66>>, <<90, 5>>, <<50, 41>>}

\* a full prediction: every label's probability, a leading and b second
FullPrediction(a, b, ca, cb) ==
    [l \in Vocabulary |-> IF l = a THEN ca ELSE IF l = b THEN cb ELSE 1]

\* the arguments of a direct call of _applyTieBreaking with a full prediction
TieBreakCallOf(a, b, c) ==
    [fn |-> "applyTieBreaking", label |-> a, confidence |-> c[1],
     landmarks |-> PoseOpen, thumb |-> 0, maxOther |-> 0,
     full |-> FullPrediction(a, b, c[1], c[2]), done |-> FALSE, out |-> Null]

TieBreakInputs ==
    { TieBreakCallOf(ab[1], ab[2], c) :
        ab \in {x \in Vocabulary \X Vocabulary : x[1] # x[2]}, c \in TopTwo }

\* a fresh engine on which one pure method is about to be called
PureInit ==
    /\ stabilityBuffer = ConstructorState.stabilityBuffer
    /\ acceptedGesture = ConstructorState.acceptedGesture
    /\ acceptedTimestamp = ConstructorState.acceptedTimestamp
    /\ inCooldown = ConstructorState.inCooldown
    /\ now = 1
    /\ ret = NoEvent
    /\ obs = NoObs("constructor")
    /\ cyc = NewCycle(TRUE, 0, Null, NoLost)
    /\ run = NoRun
    /\ env = [drifts |-> 0]
    /\ probe \in GateInputs \cup TieBreakInputs
    /\ pinchRefs = PinchRefs(NoTime, 0, FALSE)
    /\ pinchObs = NoPinchObs
    /\ loader = ModuleState
    /\ loaderObs = NoLoaderObs
    /\ feed = NoFeed

\* _applyDecisionGates(label, confidence, landmarks)
GateCall ==
    /\ probe.fn = "applyDecisionGates" /\ ~probe.done
    /\ probe' = [probe EXCEPT !.done = TRUE,
                              !.out = applyDecisionGates(probe.label, probe.confidence,
                                                         probe.landmarks)]
    /\ UNCHANGED <<engineVars, now, hooks>>

\* _applyTieBreaking(label, confidence, fullPredictionObject)
TieBreakCall ==
    /\ probe.fn = "applyTieBreaking" /\ ~probe.done
    /\ probe' = [probe EXCEPT !.done = TRUE,
                              !.out = applyTieBreaking(probe.label, probe.confidence,
                                                       probe.full)]
    /\ UNCHANGED <<engineVars, now, hooks>>

PureNext ==
    \/ GateCall
    \/ TieBreakCall

PureSpec == PureInit /\ [][PureNext]_vars

\* ---------------------------------------------------------------------------
\* The pinch detector driven by the frame loop
\* ---------------------------------------------------------------------------
MaxPinchTime == 5000

MaxShorts == 1

Hands ==
    [pinch |-> HandPinch, apart |-> HandApart, middleOut |-> HandMiddleOut,
     pinkyEdge |-> HandPinkyEdge, indexUp |-> HandIndexUp, short |-> HandShort,
     noThumb |-> HandNoThumb, none |-> NoHand]

\* the values of the currentGestureType prop
GestureTypes == {Null, "fist", "peace", "pointing", "open-palm"}

\* the frames fed: every hand with no gesture shown, the pinching hand and
\* the lost hand with every gesture type
PinchFrames ==
    {<<name, Null>> : name \in DOMAIN Hands}
        \cup {<<name, g>> : name \in {"pinch", "none"}, g \in GestureTypes}

PinchInit ==
    /\ stabilityBuffer = << >>
    /\ acceptedGesture = Null
    /\ acceptedTimestamp = 0
    /\ inCooldown = FALSE
    /\ now = PINCH_COOLDOWN
    /\ ret = NoEvent
    /\ obs = NoObs("constructor")
    /\ cyc = NewCycle(TRUE, 0, Null, NoLost)
    /\ run = NoRun
    /\ env = [drifts |-> 0]
    /\ probe = NoProbe
    /\ pinchRefs = PinchRefs(NoTime, 0, FALSE)
    /\ pinchObs = NoPinchObs
    /\ loader = ModuleState
    /\ loaderObs = NoLoaderObs
    /\ feed = NoFeed

\* the history after a detectPinch call
PinchObsOf(name, gestureType, out) ==
    LET ok == out.rule = ""
        was == pinchObs.okSince # NoTime
        firedBefore == was /\ (pinchObs.okFired \/ pinchObs.onPinch)
        clean == gestureType \notin {"peace", "pointing", "open-palm"}
    IN  [op |-> "detectPinch",
         at |-> now,
         gestureType |-> gestureType,
         hand |-> name,
         onPinch |-> out.onPinch,
         prevPinch |-> IF pinchObs.onPinch THEN pinchObs.at ELSE pinchObs.prevPinch,
         held |-> pinchRefs.isPinchingRef,
         okSince |-> IF ~ok THEN NoTime ELSE IF was THEN pinchObs.okSince ELSE now,
         okFired |-> ok /\ firedBefore,
         ranSince |-> IF ~ok /\ was THEN pinchObs.okSince ELSE NoTime,
         ranUntil |-> IF ~ok /\ was THEN pinchObs.at ELSE NoTime,
         ranFired |-> ~ok /\ firedBefore,
         cleanSince |-> IF ~clean THEN NoTime
                        ELSE IF pinchObs.cleanSince # NoTime THEN pinchObs.cleanSince
                        ELSE now,
         shorts |-> pinchObs.shorts]

\* one frame of the tracking loop: detectPinch(landmarks)
detectPinchCall ==
    \E f \in PinchFrames :
        LET out == detectPinch(pinchRefs, Hands[f[1]], f[2], now)
        IN  /\ pinchRefs' = out.refs
            /\ pinchObs' = PinchObsOf(f[1], f[2], out)
            /\ UNCHANGED <<engineVars, now, probe, loader, loaderObs, feed>>

PinchDeltas == {50, 700, 800, 1200}

\* time passes between two frames
PinchTick ==
    \E d \in PinchDeltas :
        /\ now + d <= MaxPinchTime
        /\ d = 50 => pinchObs.shorts < MaxShorts
        /\ pinchObs.op = "detectPinch"
        /\ now' = now + d
        /\ pinchObs' = [pinchObs EXCEPT !.op = "tick",
                                        !.shorts = IF d = 50 THEN @ + 1 ELSE @]
        /\ UNCHANGED <<engineVars, probe, pinchRefs, loader, loaderObs, feed>>

PinchNext == detectPinchCall \/ PinchTick

PinchSpec == PinchInit /\ [][PinchNext]_vars

\* ---------------------------------------------------------------------------
\* loadGestureModel called from several places at once
\* ---------------------------------------------------------------------------
MaxLoads == 3

MaxCalls == 5

LoaderInit ==
    /\ stabilityBuffer = << >>
    /\ acceptedGesture = Null
    /\ acceptedTimestamp = 0
    /\ inCooldown = FALSE
    /\ now = 1
    /\ ret = NoEvent
    /\ obs = NoObs("constructor")
    /\ cyc = NewCycle(TRUE, 0, Null, NoLost)
    /\ run = NoRun
    /\ env = [drifts |-> 0]
    /\ probe = NoProbe
    /\ pinchRefs = PinchRefs(NoTime, 0, FALSE)
    /\ pinchObs = NoPinchObs
    /\ loader = ModuleState
    /\ loaderObs = NoLoaderObs
    /\ feed = NoFeed

LoaderObsOf(started, returned, promise) ==
    [op |-> "loadGestureModel",
     cachedBefore |-> loader.cachedModel,
     inFlightBefore |-> InFlight(loader),
     failedBefore |-> /\ loader.loads # << >>
                      /\ loader.loads[Len(loader.loads)].pc = "rejected",
     started |-> started,
     returned |-> returned,
     promise |-> promise,
     calls |-> loaderObs.calls + 1]

\* loadGestureModel(), up to the first await of the body it may start
loadGestureModel ==
    /\ loaderObs.calls < MaxCalls
    /\ IF loader.cachedModel # Null
       THEN /\ loaderObs' = LoaderObsOf(FALSE, loader.cachedModel, 0)
            /\ UNCHANGED loader
       ELSE IF loader.isLoading /\ loader.loadPromise # 0
       THEN /\ loaderObs' = LoaderObsOf(FALSE, Null, loader.loadPromise)
            /\ UNCHANGED loader
       ELSE /\ Len(loader.loads) < MaxLoads
            /\ loader' = Module(loader.cachedModel, TRUE, Len(loader.loads) + 1,
                                loader.isUserModel,
                                Append(loader.loads, Body("loadUserModel", Null)))
            /\ loaderObs' = LoaderObsOf(TRUE, Null, Len(loader.loads) + 1)
    /\ UNCHANGED <<engineVars, now, probe, pinchRefs, pinchObs, feed>>

\* await loadUserModel() resumes: with the user's model (the warm-up passes or
\* throws) or with null, and then the body awaits tf.loadLayersModel
UserModelArrives ==
    \E i \in DOMAIN loader.loads, found \in BOOLEAN, ok \in BOOLEAN :
        /\ loader.loads[i].pc = "loadUserModel"
        /\ loader' = IF found THEN Settle(loader, i, "user", TRUE, ok)
                      ELSE [loader EXCEPT !.loads[i] = Body("loadLayersModel", Null)]
        /\ loaderObs' = [loaderObs EXCEPT !.op = "resume"]
        /\ UNCHANGED <<engineVars, now, probe, pinchRefs, pinchObs, feed>>

\* await tf.loadLayersModel('/model/model.json') resumes: with the default
\* model (the warm-up passes or throws) or with an error
DefaultModelArrives ==
    \E i \in DOMAIN loader.loads, loaded \in BOOLEAN, ok \in BOOLEAN :
        /\ loader.loads[i].pc = "loadLayersModel"
        /\ loader' = IF loaded THEN Settle(loader, i, "default", FALSE, ok)
                      ELSE Settle(loader, i, Null, FALSE, FALSE)
        /\ loaderObs' = [loaderObs EXCEPT !.op = "resume"]
        /\ UNCHANGED <<engineVars, now, probe, pinchRefs, pinchObs, feed>>

LoaderNext == loadGestureModel \/ UserModelArrives \/ DefaultModelArrives

LoaderSpec == LoaderInit /\ [][LoaderNext]_vars

\* ---------------------------------------------------------------------------
\* The model cache used by the loader, the trainer (swapModel) and the reset
\* of the personalization (resetToDefaultModel)
\* ---------------------------------------------------------------------------
\* swapModel(newModel) with a freshly trained model: the old one is disposed
swapModel ==
    /\ loaderObs.calls < MaxCalls
    /\ loader' = Module("user", loader.isLoading, loader.loadPromise, TRUE, loader.loads)
    /\ loaderObs' = [loaderObs EXCEPT !.op = "swapModel", !.calls = @ + 1]
    /\ UNCHANGED <<engineVars, now, probe, pinchRefs, pinchObs, feed>>

\* resetToDefaultModel(), up to its await of tf.loadLayersModel
resetToDefaultModel ==
    /\ loaderObs.calls < MaxCalls
    /\ Len(loader.loads) < MaxLoads
    /\ loader' = Module(Null, FALSE, 0, FALSE, Append(loader.loads, Body("resetLoad", Null)))
    /\ loaderObs' = [loaderObs EXCEPT !.op = "resetToDefaultModel", !.calls = @ + 1]
    /\ UNCHANGED <<engineVars, now, probe, pinchRefs, pinchObs, feed>>

\* await tf.loadLayersModel('/model/model.json') of resetToDefaultModel
\* resumes: with the default model, which becomes cachedModel before the
\* warm-up (passing or throwing), or with an error
ResetModelArrives ==
    \E i \in DOMAIN loader.loads, loaded \in BOOLEAN, ok \in BOOLEAN :
        /\ loader.loads[i].pc = "resetLoad"
        /\ loader' = Module(IF loaded THEN "default" ELSE loader.cachedModel,
                            loader.isLoading, loader.loadPromise, loader.isUserModel,
                            [loader.loads EXCEPT ![i] =
                                IF loaded /\ ok THEN Body("resolved", "default")
                                ELSE Body("rejected", Null)])
        /\ loaderObs' = [loaderObs EXCEPT !.op = "resume"]
        /\ UNCHANGED <<engineVars, now, probe, pinchRefs, pinchObs, feed>>

\* isUsingUserModel()
isUsingUserModel == loader.isUserModel

CacheNext ==
    \/ loadGestureModel
    \/ UserModelArrives
    \/ DefaultModelArrives
    \/ swapModel
    \/ resetToDefaultModel
    \/ ResetModelArrives

CacheSpec == LoaderInit /\ [][CacheNext]_vars

\* ---------------------------------------------------------------------------
\* A gesture held in front of the camera: the tracking loop keeps calling
\* processGestureFrame with frames of one label while the clock advances
\* ---------------------------------------------------------------------------
LiveMaxTime == MaxTime + 2 * GESTURE_COOLDOWN_MS

\* the label a frame carries after the gates
GatedOf(f) == applyDecisionGates(f.label, f.confidence, f.landmarks)

LiveInit == Init

\* the session before the gesture is held: frames of a fist, resets, time
\* passing
Before ==
    /\ feed = NoFeed
    /\ \/ processGestureFrame /\ obs'.label = "CLOSED_FIST" /\ now' = now
       \/ Reset
       \/ Tick

\* the user starts holding a gesture of the vocabulary that is not the
\* accepted one
Hold ==
    \E f \in Frames :
        /\ feed = NoFeed
        /\ GatedOf(f) \in Vocabulary
        /\ GatedOf(f) # acceptedGesture
        /\ feed' = [on |-> TRUE, done |-> FALSE, label |-> GatedOf(f), raw |-> f.label,
                    locked |-> isInCooldown(inCooldown, acceptedTimestamp, now).result]
        /\ UNCHANGED <<engineVars, now, probe, pinchRefs, pinchObs, loader, loaderObs>>

\* processGestureFrame(mlPrediction, landmarks) with a frame of the gesture held
HeldFrame ==
    \E f \in Frames :
        /\ feed.on
        /\ f.label = feed.raw
        /\ GatedOf(f) = feed.label
        /\ \E out \in {processFrame([label |-> f.label, confidence |-> f.confidence],
                                    f.landmarks, 0, 0)} :
            /\ Install(out.state)
            /\ now' = out.now
            /\ ret' = out.ret
            /\ \E c \in {CycleOf(out)}, r \in {RunOf(out, f)} :
                /\ obs' = [op |-> "processFrame", at |-> now,
                           label |-> f.label, wellFormed |-> Readable(f.landmarks),
                           gated |-> out.gated, locked |-> out.locked,
                           before |-> acceptedGesture, kept |-> Kept(out.state),
                           window |-> out.window, read |-> out.read,
                           stamp |-> out.stamp, evicted |-> out.evicted,
                           report |-> NoReport,
                           run |-> r, cyc |-> c]
                /\ cyc' = IF IsEvent(out.ret)
                          THEN NewCycle(FALSE, out.now, out.ret.label, NoLost)
                          ELSE c
                /\ run' = IF IsEvent(out.ret) THEN NoRun ELSE r
            /\ feed' = IF IsEvent(out.ret)
                       THEN [feed EXCEPT !.on = FALSE, !.done = TRUE]
                       ELSE feed
        /\ UNCHANGED <<env, probe, pinchRefs, pinchObs, loader, loaderObs>>

\* time passes while the gesture is held
HeldTick ==
    \E d \in Deltas :
        /\ feed.on
        /\ inCooldown /\ now - acceptedTimestamp < GESTURE_COOLDOWN_MS
        /\ now + d <= LiveMaxTime
        /\ now' = now + d
        /\ ret' = NoEvent
        /\ obs' = [NoObs("tick") EXCEPT !.at = now, !.before = acceptedGesture]
        /\ UNCHANGED <<stabilityBuffer, acceptedGesture, acceptedTimestamp,
                       inCooldown, cyc, run, env, probe, hooks>>

LiveNext == Before \/ Hold \/ HeldFrame \/ HeldTick

\* the loop keeps delivering the frames of the held gesture, and time passes
LiveSpec ==
    LiveInit /\ [][LiveNext]_vars /\ WF_vars(HeldFrame) /\ WF_vars(HeldTick)

\* ---------------------------------------------------------------------------
\* Properties
\* ---------------------------------------------------------------------------
\* the last operation was a processFrame call
Call == obs.op = "processFrame"

\* ... with a label other than NONE / absent, which the gate let through
ValidCall == Call /\ obs.gated \notin {Null, TypeError}

\* every call of the cycle so far, this one included, carried one same gated label
Uniform == obs.cyc.calls \in 1..STABILITY_FRAMES /\ obs.cyc.lead = obs.cyc.calls

\* the call was made less than GESTURE_COOLDOWN_MS after the last acceptance
InLockWindow == ~obs.cyc.fresh /\ obs.at < obs.cyc.since + GESTURE_COOLDOWN_MS

\* C1: from a freshly reset engine, STABILITY_FRAMES consecutive processFrame
\* calls with one same valid gated label emit exactly one acceptance, on the
\* last of them and on no earlier one.
C1_OneAcceptanceOnWthFrame ==
    (ValidCall /\ obs.cyc.fresh /\ Uniform /\ obs.cyc.nones = 0)
        => IF obs.cyc.calls = STABILITY_FRAMES
           THEN IsEvent(ret) /\ ret.label = obs.cyc.leadLabel
           ELSE ret = NoEvent

C1_Witness ==
    /\ ValidCall /\ obs.cyc.fresh /\ Uniform /\ obs.cyc.nones = 0
    /\ obs.cyc.calls = STABILITY_FRAMES
    /\ IsEvent(ret) /\ ret.label = "CLOSED_FIST"

\* C2: an acceptance is emitted only by a call after whose append the buffer
\* holds exactly STABILITY_FRAMES samples of one label, the last
\* STABILITY_FRAMES samples appended since the buffer was cleared agreeing;
\* from an empty buffer, STABILITY_FRAMES - 1 equal labels followed by a
\* different one emit nothing.
C2_AcceptanceNeedsFullAgreement ==
    /\ IsEvent(ret) =>
        /\ ValidCall
        /\ obs.window.len = STABILITY_FRAMES /\ obs.window.same
        /\ obs.run.len = STABILITY_FRAMES /\ obs.run.label = ret.label
    /\ (ValidCall /\ obs.cyc.calls = STABILITY_FRAMES /\ obs.cyc.fed = STABILITY_FRAMES
            /\ obs.cyc.lead = STABILITY_FRAMES - 1)
        => ret = NoEvent

C2_Witness ==
    /\ ValidCall /\ obs.cyc.calls = STABILITY_FRAMES /\ obs.cyc.fed = STABILITY_FRAMES
    /\ obs.cyc.lead = STABILITY_FRAMES - 1
    /\ obs.window.len = STABILITY_FRAMES /\ ~obs.window.same
    /\ ret = NoEvent

\* C3: a processFrame call made less than GESTURE_COOLDOWN_MS after an
\* acceptance (no reset in between) returns no event, whatever its label.
C3_NoEventWithinCooldown ==
    (Call /\ InLockWindow) => ret = NoEvent

C3_Witness ==
    /\ ValidCall /\ ~obs.cyc.fresh
    /\ obs.at = obs.cyc.since + GESTURE_COOLDOWN_MS - 1
    /\ obs.gated # obs.before
    /\ ret = NoEvent

\* the calls of the cycle are STABILITY_FRAMES frames of the accepted label,
\* all of them fed to the buffer, that is all made after the cooldown
HeldAfterCooldown ==
    /\ ValidCall /\ ~obs.cyc.fresh
    /\ obs.cyc.fed = STABILITY_FRAMES /\ obs.cyc.lead = STABILITY_FRAMES
    /\ obs.cyc.leadLabel = obs.cyc.last

\* C4 as stated: after the cooldown, STABILITY_FRAMES more frames of the
\* accepted label produce no event and leave the buffer empty.
C4_Original ==
    HeldAfterCooldown => (ret = NoEvent /\ stabilityBuffer = << >>)

\* C4 amended: after the cooldown, STABILITY_FRAMES more frames of the accepted
\* label produce no event and are not cleared from the buffer: it holds these
\* STABILITY_FRAMES samples of the accepted label.
C4_HeldGestureFillsBuffer ==
    HeldAfterCooldown =>
        /\ ret = NoEvent
        /\ acceptedGesture = obs.cyc.last
        /\ Len(stabilityBuffer) = STABILITY_FRAMES
        /\ \A i \in 1..Len(stabilityBuffer) : stabilityBuffer[i].label = obs.cyc.last

C4_Witness ==
    HeldAfterCooldown /\ Len(stabilityBuffer) = STABILITY_FRAMES /\ ret = NoEvent

\* C5: an acceptance carries a label that differs from acceptedGesture; without
\* a reset in between, two successive acceptances never carry the same label.
C5_AcceptanceChangesLabel ==
    IsEvent(ret) => (ret.label # obs.before /\ (~obs.cyc.fresh => ret.label # obs.cyc.last))

C5_Witness ==
    IsEvent(ret) /\ ~obs.cyc.fresh /\ obs.cyc.last # Null /\ ret.label # obs.cyc.last

C7_NoneFrameChangesNothing ==
    (Call /\ obs.gated = Null) => (ret = NoEvent /\ obs.kept = Fields)

C7_Witness ==
    /\ Call /\ obs.gated = Null /\ ret = NoEvent
    /\ Len(stabilityBuffer) = STABILITY_FRAMES - 1

\* the calls of the cycle were all fed to the buffer (in Idle, from an empty
\* buffer), carry one same label, and NONE frames came among them
AgreeingWithNones ==
    /\ ValidCall /\ Uniform
    /\ obs.cyc.fed = obs.cyc.calls
    /\ obs.cyc.nones >= 1

\* C8 as stated: from an empty buffer in Idle, STABILITY_FRAMES frames of one
\* valid label with NONE frames among them produce one acceptance, on the last.
C8_Original ==
    AgreeingWithNones => (IsEvent(ret) <=> obs.cyc.calls = STABILITY_FRAMES)

\* C8 amended: the same, for a label that differs from acceptedGesture.
C8_NonesDoNotResetProgress ==
    (AgreeingWithNones /\ obs.cyc.leadLabel # obs.before)
        => /\ IsEvent(ret) <=> obs.cyc.calls = STABILITY_FRAMES
           /\ IsEvent(ret) => ret.label = obs.cyc.leadLabel

C8_Witness ==
    /\ AgreeingWithNones /\ obs.cyc.leadLabel # obs.before
    /\ obs.cyc.calls = STABILITY_FRAMES
    /\ IsEvent(ret)

\* C9: after onHandLost() during a cooldown the engine is idle and cleared, and
\* the next STABILITY_FRAMES frames of the label accepted before the loss,
\* made before that cooldown would have ended, produce an acceptance.
C9_HandLostEndsCooldown ==
    /\ obs.op = "onHandLost" => (~inCooldown /\ acceptedGesture = Null)
    /\ (ValidCall /\ obs.cyc.lost.by = "onHandLost" /\ Uniform /\ obs.cyc.nones = 0)
        => /\ IsEvent(ret) <=> obs.cyc.calls = STABILITY_FRAMES
           /\ IsEvent(ret) => ret.label = obs.cyc.lost.label

C9_Witness ==
    /\ ValidCall /\ obs.cyc.lost.by = "onHandLost" /\ Uniform
    /\ obs.at < obs.cyc.lost.until
    /\ IsEvent(ret) /\ ret.label = obs.cyc.lost.label

\* C10: after reset() or onHandLost(), from any state, the engine is in its
\* initial state: empty buffer, no accepted gesture, cooldown inactive.
C10_ResetGivesInitialState ==
    obs.op \in {"reset", "onHandLost"}
        => /\ stabilityBuffer = << >>
           /\ acceptedGesture = Null
           /\ acceptedTimestamp = 0
           /\ inCooldown = FALSE

C10_Witness ==
    /\ obs.op \in {"reset", "onHandLost"}
    /\ obs.before # Null
    /\ obs.kept = {"stabilityBuffer"}

ConservativeRank(label) ==
    CASE label = "OPEN_PALM"   -> 1
      [] label = "POINTING_UP" -> 2
      [] label = "PEACE_SIGN"  -> 3
      [] label = "CLOSED_FIST" -> 4
      [] label = "THUMBS_UP"   -> 5

\* the label with the second highest probability of a full prediction led by top
SecondOf(full, top) ==
    CHOOSE l \in Vocabulary \ {top} : \A m \in Vocabulary \ {top} : full[m] <= full[l]

\* what the tie-break is to return for a full prediction led by top
ConservativeChoice(full, top) ==
    LET second == SecondOf(full, top)
    IN  IF full[top] - full[second] < CONFIDENCE_TIE_BREAK_THRESHOLD
            /\ ConservativeRank(second) < ConservativeRank(top)
        THEN second
        ELSE top

\* C12: called with a full per-class prediction, the tie-break returns the more
\* conservative of the two leading labels when their confidences differ by
\* less than CONFIDENCE_TIE_BREAK_THRESHOLD, and the leading label otherwise.
C12_TieBreakPrefersConservative ==
    (probe.fn = "applyTieBreaking" /\ probe.done)
        => probe.out = ConservativeChoice(probe.full, probe.label)

\* the last operation was a processFrame call with a label other than NONE /
\* absent that is not one of the five labels of the vocabulary
UnknownLabelCall == Call /\ ~IgnoredLabel(obs.label) /\ obs.label \notin Vocabulary

\* C13: a processFrame call whose label is outside the vocabulary returns no
\* event and leaves the stability buffer unchanged, and no acceptance ever
\* carries a label outside the vocabulary.
C13_UnknownLabelIgnored ==
    /\ UnknownLabelCall => (ret = NoEvent /\ "stabilityBuffer" \in obs.kept)
    /\ IsEvent(ret) => ret.label \in Vocabulary

\* the last operation was a processFrame call with a label other than NONE /
\* absent and landmarks that lack an index the engine reads
MalformedPoseCall == Call /\ ~IgnoredLabel(obs.label) /\ ~obs.wellFormed

\* C14: a processFrame call with a malformed pose and a label other than NONE
\* fails with an error and leaves every field of the engine unchanged.
C14_MalformedPoseRejected ==
    MalformedPoseCall => (ret = Thrown /\ obs.kept = Fields)

\* the last operation was a processFrame call that pushed a sample
Pushed == Call /\ obs.stamp # 0

\* C15 as stated: within one call the time compared against the cooldown, the
\* timestamp of the pushed sample and the acceptedTimestamp recorded on
\* acceptance are one same value.
C15_Original ==
    Pushed => /\ obs.read # 0 => obs.stamp = obs.read
              /\ IsEvent(ret) => acceptedTimestamp = obs.stamp

\* C15 amended: the cooldown is decided from one clock read, made when the call
\* starts; the timestamp of the pushed sample and the acceptedTimestamp are
\* later reads of the clock, in this order, the last being the clock at return.
C15_ClockReadsInOrder ==
    /\ (Call /\ obs.read # 0) => obs.read = obs.at
    /\ Pushed =>
        /\ obs.at <= obs.stamp /\ obs.stamp <= now
        /\ ~IsEvent(ret) => stabilityBuffer[Len(stabilityBuffer)].timestamp = obs.stamp
        /\ IsEvent(ret) => (obs.stamp <= acceptedTimestamp /\ acceptedTimestamp = now)

C15_Witness ==
    /\ Pushed /\ IsEvent(ret)
    /\ obs.at < obs.stamp /\ obs.stamp < acceptedTimestamp

\* a step of processFrame that pushes a sample and does not accept: the buffer
\* after it is the buffer before it, without its oldest sample if it was full,
\* followed by the new sample
FifoStep ==
    (obs'.op = "processFrame" /\ obs'.stamp # 0 /\ ~IsEvent(ret'))
        => LET old == stabilityBuffer
               new == stabilityBuffer'
               rest == IF Len(old) = STABILITY_FRAMES THEN Tail(old) ELSE old
           IN  /\ Len(new) = Len(rest) + 1
               /\ SubSeq(new, 1, Len(rest)) = rest
               /\ new[Len(new)].label = obs'.gated
               /\ new[Len(new)].timestamp = obs'.stamp

\* C16: the stability buffer never holds more than STABILITY_FRAMES samples,
\* and a sample pushed on a full buffer evicts the oldest one, the others
\* keeping their order.
C16_BufferBoundedFifo ==
    /\ [](Len(stabilityBuffer) <= STABILITY_FRAMES)
    /\ [][FifoStep]_vars

C16_Witness ==
    /\ Call /\ obs.evicted /\ ret = NoEvent
    /\ Len(stabilityBuffer) = STABILITY_FRAMES
    /\ stabilityBuffer[1].label # obs.gated

\* C17: acceptedGesture is null exactly when no acceptance has been emitted
\* since the engine was created or last reset; otherwise it is the label of
\* the most recent acceptance, and the call that emits an acceptance sets it.
C17_AcceptedGestureIsLastAcceptance ==
    /\ acceptedGesture = Null <=> cyc.fresh
    /\ ~cyc.fresh => acceptedGesture = cyc.last
    /\ IsEvent(ret) => acceptedGesture = ret.label

C17_Witness ==
    /\ IsEvent(ret) /\ ~cyc.fresh
    /\ obs.before # Null /\ acceptedGesture # obs.before
    /\ acceptedGesture = ret.label

\* the cooldown as recomputed from acceptedTimestamp and the clock: a gesture
\* has been accepted less than GESTURE_COOLDOWN_MS ago
CooldownRecomputed ==
    acceptedGesture # Null /\ now - acceptedTimestamp < GESTURE_COOLDOWN_MS

\* C18: whenever the engine is observed through getEngineState, in any
\* reachable state and at any time, the inCooldown flag it holds and reports
\* equals the cooldown recomputed from acceptedTimestamp and the clock.
C18_FlagIsRecomputable ==
    obs.op = "getEngineState"
        => /\ obs.report.inCooldown = inCooldown
           /\ obs.report.inCooldown <=> CooldownRecomputed

\* C19: right after a processFrame call that emits an acceptance the buffer is
\* empty, acceptedGesture is the emitted label, acceptedTimestamp is the time
\* of that call (a clock value read during it) and the engine is locked: a
\* frame submitted now is ignored.  A processFrame call that emits nothing
\* leaves acceptedGesture and acceptedTimestamp as they were.
C19_AcceptanceLocksAndClears ==
    /\ IsEvent(ret) =>
        /\ stabilityBuffer = << >>
        /\ acceptedGesture = ret.label
        /\ obs.at <= acceptedTimestamp /\ acceptedTimestamp <= now
        /\ inCooldown
        /\ isInCooldown(inCooldown, acceptedTimestamp, now).result
    /\ (Call /\ ~IsEvent(ret)) => {"acceptedGesture", "acceptedTimestamp"} \subseteq obs.kept

C19_Witness ==
    /\ IsEvent(ret) /\ obs.evicted
    /\ obs.before # Null /\ ret.label # obs.before
    /\ stabilityBuffer = << >> /\ acceptedTimestamp = obs.at /\ inCooldown

\* C20: after a cooldown has run out, the calls made from then on carrying one
\* same valid label that differs from acceptedGesture are accepted on exactly
\* the STABILITY_FRAMES-th of them, whether or not calls were made during the
\* cooldown.
C20_AcceptedOnWthPostCooldownFrame ==
    (ValidCall /\ ~obs.cyc.fresh /\ ~InLockWindow /\ Uniform /\ obs.cyc.nones = 0
        /\ obs.cyc.leadLabel # obs.cyc.last)
        => /\ IsEvent(ret) <=> obs.cyc.calls = STABILITY_FRAMES
           /\ IsEvent(ret) => ret.label = obs.cyc.leadLabel

C20_Witness ==
    /\ ValidCall /\ ~obs.cyc.fresh /\ ~InLockWindow /\ Uniform /\ obs.cyc.nones = 0
    /\ obs.cyc.ignored
    /\ obs.cyc.calls = STABILITY_FRAMES
    /\ IsEvent(ret) /\ ret.label # obs.cyc.last

\* a step of getEngineState leaves every field of the engine as it was
ReadOnlyStep ==
    obs'.op = "getEngineState"
        => /\ stabilityBuffer' = stabilityBuffer
           /\ acceptedGesture' = acceptedGesture
           /\ acceptedTimestamp' = acceptedTimestamp
           /\ inCooldown' = inCooldown

\* what getEngineState reports is what the engine holds, and the remaining
\* cooldown is within 0..GESTURE_COOLDOWN_MS, 0 when the reported flag is false
ReportInRange ==
    obs.op = "getEngineState"
        => /\ obs.report.acceptedGesture = acceptedGesture
           /\ obs.report.stabilityBufferSize = Len(stabilityBuffer)
           /\ obs.report.cooldownTimeRemaining >= 0
           /\ obs.report.cooldownTimeRemaining <= GESTURE_COOLDOWN_MS
           /\ ~obs.report.inCooldown => obs.report.cooldownTimeRemaining = 0

\* C22: getEngineState changes no field of the engine, in any reachable state
\* and however often it is called; the cooldown time it reports is between 0
\* and GESTURE_COOLDOWN_MS and is 0 whenever the reported flag is false.
C22_GetEngineStateReadOnly ==
    /\ []ReportInRange
    /\ [][ReadOnlyStep]_vars

C22_Witness ==
    /\ obs.op = "getEngineState"
    /\ obs.report.inCooldown /\ obs.report.cooldownTimeRemaining = 0
    /\ now - acceptedTimestamp > GESTURE_COOLDOWN_MS

\* C23: after detectPinch invoked onPinch at time t, no detectPinch call
\* invokes onPinch before t + PINCH_COOLDOWN, whether the pinch stayed held or
\* was released and made again.
C23_PinchCooldown ==
    (pinchObs.onPinch /\ pinchObs.prevPinch # NoTime)
        => pinchObs.at - pinchObs.prevPinch >= PINCH_COOLDOWN

\* a second onPinch, after the pinch was released and made again
C23_Witness ==
    /\ pinchObs.op = "detectPinch"
    /\ pinchObs.onPinch
    /\ pinchObs.prevPinch # NoTime
    /\ pinchObs.okSince > pinchObs.prevPinch

\* C24: a pinch whose conditions held on every call for more than 700 ms,
\* with the cooldown expired, has invoked onPinch by the time it is released;
\* one that lasted less than 700 ms has not.
C24_HoldOver700Triggers ==
    (pinchObs.op = "detectPinch" /\ pinchObs.ranSince # NoTime
        /\ pinchObs.prevPinch = NoTime /\ ~pinchObs.onPinch)
        => /\ pinchObs.ranUntil - pinchObs.ranSince > 700 => pinchObs.ranFired
           /\ pinchObs.ranUntil - pinchObs.ranSince < 700 => ~pinchObs.ranFired

ConflictNames == {"peace", "pointing", "open-palm"}

\* C25: a detectPinch call made while the gesture type is peace, pointing or
\* open-palm does not invoke onPinch and leaves no hold in progress; onPinch
\* is invoked only when no call had such a gesture type for PINCH_HOLD_DURATION.
C25_ConflictingGestureSuppresses ==
    /\ (pinchObs.op = "detectPinch" /\ pinchObs.gestureType \in ConflictNames)
        => /\ ~pinchObs.onPinch
           /\ pinchRefs.holdStartTimeRef = NoTime
           /\ ~pinchRefs.isPinchingRef
    /\ pinchObs.onPinch
        => /\ pinchObs.cleanSince # NoTime
           /\ pinchObs.at - pinchObs.cleanSince >= PINCH_HOLD_DURATION

\* a conflicting gesture type arrives with a pinching hand while a hold is in
\* progress
C25_Witness ==
    /\ pinchObs.op = "detectPinch"
    /\ pinchObs.gestureType = "open-palm"
    /\ pinchObs.hand = "pinch"
    /\ pinchObs.held
    /\ pinchObs.ranSince # NoTime
    /\ pinchObs.at - pinchObs.ranSince >= PINCH_HOLD_DURATION - 100

MappingOf(label) ==
    CASE label = "OPEN_PALM" ->
            <<"open-palm", "Let's put a pin in that for now.">>
      [] label = "CLOSED_FIST" ->
            <<"fist", "We need to circle back to the core deliverables.">>
      [] label = "THUMBS_UP" ->
            <<"thumbs-up", "I am fully aligned with this initiative.">>
      [] label = "POINTING_UP" ->
            <<"pointing", "Let's take this offline.">>
      [] label = "PEACE_SIGN" ->
            <<"peace", "We have verified the cross-functional synergy.">>
      [] OTHER -> <<Null, "Waiting for input">>

\* C28: an acceptance event carries the label the window stabilized on after
\* gating, with the gestureType and phrase the mapping gives that label; a
\* window of raw THUMBS_UP frames relabelled by the gate yields the CLOSED_FIST
\* label, type and phrase.
C28_EventCarriesGatedLabel ==
    IsEvent(ret)
        => /\ ret.label = obs.gated
           /\ obs.window = [len |-> STABILITY_FRAMES, same |-> TRUE]
           /\ <<ret.gestureType, ret.phrase>> = MappingOf(ret.label)
           /\ obs.run.kinds = {"weakUp"}
               => /\ ret.label = "CLOSED_FIST"
                  /\ ret.gestureType = "fist"
                  /\ ret.phrase = "We need to circle back to the core deliverables."

\* the acceptance of a window made of relabelled THUMBS_UP frames only
C28_Witness ==
    /\ IsEvent(ret)
    /\ obs.label = "THUMBS_UP"
    /\ obs.run.kinds = {"weakUp"}
    /\ obs.run.fist = STABILITY_FRAMES
    /\ ret.gestureType = "fist"

\* a processFrame call carrying a label other than NONE, made in a cycle that
\* an acceptance started (no reset since)
CallAfterAcceptance ==
    Call /\ obs.label \notin {Null, "NONE"} /\ ~obs.cyc.fresh /\ obs.cyc.since > 0

\* C29: after an acceptance recorded at acceptedAt > 0, a frame with a label
\* is ignored by the lock exactly when the call is made before
\* acceptedAt + GESTURE_COOLDOWN_MS: at acceptedAt + GESTURE_COOLDOWN_MS - 1
\* nothing is appended, at acceptedAt + GESTURE_COOLDOWN_MS the sample of a
\* valid frame is.
C29_CooldownBoundary ==
    CallAfterAcceptance
        => /\ obs.locked <=> obs.at < obs.cyc.since + GESTURE_COOLDOWN_MS
           /\ obs.locked => ~Pushed /\ ret = NoEvent /\ obs.kept = Fields
           /\ (~obs.locked /\ ValidCall) => Pushed

\* a frame ignored within the cooldown, then the first frame appended at
\* exactly acceptedAt + GESTURE_COOLDOWN_MS
C29_Witness ==
    /\ CallAfterAcceptance /\ ValidCall
    /\ obs.at = obs.cyc.since + GESTURE_COOLDOWN_MS
    /\ ~obs.locked /\ Pushed
    /\ Len(stabilityBuffer) = 1
    /\ obs.cyc.ignored

C31_AcceptancesAreSpaced ==
    (IsEvent(ret) /\ ~obs.cyc.fresh)
        => /\ obs.at - obs.cyc.since >= GESTURE_COOLDOWN_MS
           /\ acceptedTimestamp - obs.cyc.since >= GESTURE_COOLDOWN_MS
           /\ obs.run.appended = STABILITY_FRAMES
           /\ ret.label # obs.cyc.last

\* a second acceptance made by a call at exactly GESTURE_COOLDOWN_MS after the
\* first
C31_Witness ==
    /\ IsEvent(ret) /\ ~obs.cyc.fresh
    /\ obs.cyc.since > 0
    /\ obs.at = obs.cyc.since + GESTURE_COOLDOWN_MS

\* C32: while the clock advances and frames of one label of the vocabulary,
\* not the accepted one, keep arriving with no reset, that label is
\* eventually accepted, lock or no lock at the start.
C32_LockEndsEventually ==
    feed.on ~> (feed.done /\ IsEvent(ret) /\ ret.label = feed.label
                    /\ acceptedGesture = feed.label)

\* the gesture whose first frames were ignored by the lock has been accepted
C32_Witness ==
    /\ feed.done /\ feed.locked
    /\ IsEvent(ret) /\ ret.label = feed.label
    /\ obs.cyc.ignored

\* C33: whenever a model is cached, isUsingUserModel() returns true exactly
\* when that model is a user-trained one, whatever the interleaving of
\* loadGestureModel, swapModel and resetToDefaultModel.
C33_UserFlagMatchesCache ==
    loader.cachedModel # Null => (isUsingUserModel <=> loader.cachedModel = "user")

====
